---- MODULE Spec2Model ----
(***************************************************************************)
(* Order store, order-update reducer, position executor and OMS of the     *)
(* market maker (src/marketmaking, src/exchanges/hyperliquid/ws_handlers). *)
(* Prices are integers, sizes are lots, times are milliseconds.  Python    *)
(* dicts keep insertion order, so every partition is a sequence of keys;   *)
(* the Order objects the partitions share live in objs, keyed by cloid.    *)
(***************************************************************************)
EXTENDS Integers, Sequences, FiniteSets, TLC

VARIABLES orders, flags, objs, position, levelDict, now, venue,
          tick, mon, mid, orderbook, update_id, ws

vars == <<orders, flags, objs, position, levelDict, now, venue,
          tick, mon, mid, orderbook, update_id, ws>>

(* ------------------------------ bounds --------------------------------- *)
MaxSeq == 3
MaxTpSeq == 4
MaxClock == 1
MaxLots == 1
(* tighter id caps for the specifications that run every task together     *)
MMSeq == 2
MMTp == 1

(* ------------------------- program constants --------------------------- *)
Side == [BUY |-> 1, SELL |-> -1]
OrderType == [LIMIT |-> 0, MARKET |-> 1, STOP_LIMIT |-> 2,
              TAKE_PROFIT_LIMIT |-> 3, STOP_MARKET |-> 4,
              TAKE_PROFIT_MARKET |-> 5]
TimeInForce == [GTC |-> 0, FOK |-> 1, POST_ONLY |-> 2, IOC |-> 3]
OrderStatus == [IN_FLIGHT |-> 0, TO_BE_TRIGGERED |-> 1, IN_THE_BOOK |-> 2,
                TO_CANCEL |-> 3, RECENTLY_CANCELLED |-> 4]
LevelBase == 10000000
DropAgeMs == 3000
SensitivityInv == 5
total_orders == 2
max_position == 100
take_profit_pct == 10
liquidation_timer == 3000
HalfSpread == 10
FillPx == 100
ForeignOid == 77

None == 0 - 999
NoCloid == 0
ClockStep == DropAgeMs + 1000
Mids == {100, 110}
Levels == (0 - total_orders \div 2) .. (total_orders \div 2)
FlagNames == {"to_create", "to_amend", "to_cancel"}
Remove == {"rejected", "filled", "canceled", "marginCanceled"}
Statuses == {"open", "triggered"} \cup Remove
Conditional == {OrderType.STOP_LIMIT, OrderType.TAKE_PROFIT_LIMIT,
                OrderType.STOP_MARKET, OrderType.TAKE_PROFIT_MARKET}

Abs(x) == IF x < 0 THEN 0 - x ELSE x

(* ------------------------- ordered-dict helpers ------------------------ *)
Keys(d) == {d[i] : i \in 1..Len(d)}
Has(d, k) == \E i \in 1..Len(d) : d[i] = k
Put(d, k) == IF Has(d, k) THEN d ELSE Append(d, k)
Del(d, k) == SelectSeq(d, LAMBDA x : x # k)

(* keys of to_cancel: a cloid (our order) or a venue oid (placeholder)     *)
CKey(c) == [kind |-> "cloid", key |-> c]
OKey(o) == [kind |-> "oid", key |-> o]

(* ------------------------------ order ids ------------------------------ *)
match_level(id) == id \div LevelBase
Oid(id) == IF id >= 0 THEN 2 * id ELSE 1 - 2 * id

(* Cloid.from_int / to_int: the id as a two's-complement word.  The word is *)
(* 128 bits wide in the program; ids stay far from half the word there and  *)
(* here, where the word is 30 bits so that it fits the checker's integers.  *)
CloidModulus == 2^30
from_int(cloid) == IF cloid < 0 THEN cloid + CloidModulus ELSE cloid
to_int(raw) == IF raw >= CloidModulus \div 2 THEN raw - CloidModulus ELSE raw

(* Order.__eq__ : ids, status and timestamp are not part of equality       *)
OrderEq(a, b) ==
    /\ a.side = b.side
    /\ a.orderType = b.orderType
    /\ a.timeInForce = b.timeInForce
    /\ a.price = b.price
    /\ a.size = b.size

(* ------------------- HlOrdersHandler.process (one entry) ---------------- *)
(* st = [orders, flags, objs, raised]; m = [status, cloid, oid, ts]         *)
Raise(st) == [st EXCEPT !.raised = TRUE]

Placeholder(st, m) ==
    [st EXCEPT !.orders.to_cancel = Put(@, OKey(m.oid)),
               !.flags.to_cancel = TRUE]

DropIntent(st, c) ==
    IF Has(st.orders.to_create, c)
    THEN [st EXCEPT !.orders.to_create = Del(@, c)]
    ELSE IF Has(st.orders.to_amend, c)
    THEN [st EXCEPT !.orders.to_amend = Del(@, c)]
    ELSE st

(* an unknown cloid promoted to the book instead of being cancelled         *)
ProcessOpenPromote(st, m) ==
    LET c == m.cloid
        s1 == IF c \in DOMAIN st.objs
              THEN [st EXCEPT !.objs[c].status = OrderStatus.IN_THE_BOOK]
              ELSE st
    IN [s1 EXCEPT !.orders.in_the_book = Put(@, c),
                  !.orders.in_flight = Del(@, c)]

ProcessOpen(st, m) ==
    LET c == m.cloid IN
    IF ~Has(st.orders.in_flight, c)
    THEN Placeholder(st, m)
    ELSE LET s1 == [st EXCEPT !.objs[c].orderId = m.oid,
                              !.objs[c].timestamp = m.ts]
             s2 == IF ~Has(s1.orders.to_be_triggered, c)
                   THEN [s1 EXCEPT !.orders.in_the_book = Put(@, c),
                                   !.objs[c].status = OrderStatus.IN_THE_BOOK]
                   ELSE s1
         IN [s2 EXCEPT !.orders.in_flight = Del(@, c)]

ProcessTriggered(st, m) ==
    LET c == m.cloid IN
    IF ~Has(st.orders.to_be_triggered, c)
    THEN Raise(st)
    ELSE [st EXCEPT !.orders.in_the_book = Put(@, c),
                    !.objs[c].status = OrderStatus.IN_THE_BOOK,
                    !.orders.to_be_triggered = Del(@, c)]

ToRecentlyCancelled(st, c, ts) ==
    [st EXCEPT !.orders.recently_cancelled = Put(@, c),
               !.objs[c].status = OrderStatus.RECENTLY_CANCELLED,
               !.objs[c].timestamp = ts]

(* a rejection recorded for an id whether or not it is in in_flight        *)
ProcessRemoveUnguarded(st, m) ==
    LET c == m.cloid
        s1 == IF Has(st.orders.tp, c)
              THEN [st EXCEPT !.orders.tp = Del(@, c)]
              ELSE IF Has(st.orders.sl, c)
              THEN [st EXCEPT !.orders.sl = Del(@, c)]
              ELSE st
        s2 == [s1 EXCEPT !.orders.to_cancel = Del(@, CKey(c))]
    IN IF m.status = "rejected"
       THEN [ToRecentlyCancelled(s2, c, m.ts)
                EXCEPT !.orders.in_flight = Del(@, c)]
       ELSE IF ~Has(s2.orders.in_the_book, c)
            THEN Raise(s2)
            ELSE [ToRecentlyCancelled(s2, c, m.ts)
                     EXCEPT !.orders.in_the_book = Del(@, c)]

(* a removal that forgets the take-profit tag and the cancel request       *)
ProcessRemoveKeepTag(st, m) ==
    LET c == m.cloid
    IN IF m.status = "rejected"
       THEN IF Has(st.orders.in_flight, c)
            THEN [ToRecentlyCancelled(st, c, m.ts)
                     EXCEPT !.orders.in_flight = Del(@, c)]
            ELSE st
       ELSE IF ~Has(st.orders.in_the_book, c)
            THEN Raise(st)
            ELSE [ToRecentlyCancelled(st, c, m.ts)
                     EXCEPT !.orders.in_the_book = Del(@, c)]

ProcessRemove(st, m) ==
    LET c == m.cloid
        s1 == IF Has(st.orders.tp, c)
              THEN [st EXCEPT !.orders.tp = Del(@, c)]
              ELSE IF Has(st.orders.sl, c)
              THEN [st EXCEPT !.orders.sl = Del(@, c)]
              ELSE st
        s2 == [s1 EXCEPT !.orders.to_cancel = Del(@, CKey(c))]
    IN IF m.status = "rejected"
       THEN IF Has(s2.orders.in_flight, c)
            THEN [ToRecentlyCancelled(s2, c, m.ts)
                     EXCEPT !.orders.in_flight = Del(@, c)]
            ELSE s2
       ELSE IF ~Has(s2.orders.in_the_book, c)
            THEN Raise(s2)
            ELSE [ToRecentlyCancelled(s2, c, m.ts)
                     EXCEPT !.orders.in_the_book = Del(@, c)]

Process(st, m) ==
    IF m.cloid = NoCloid /\ m.status = "open"
    THEN Placeholder(st, m)
    ELSE IF m.cloid = NoCloid /\ m.status = "canceled"
    THEN IF Has(st.orders.to_cancel, OKey(m.oid))
         THEN [st EXCEPT !.orders.to_cancel = Del(@, OKey(m.oid))]
         ELSE Raise(st)
    ELSE LET s1 == DropIntent(st, m.cloid) IN
         IF m.status = "open" THEN ProcessOpen(s1, m)
         ELSE IF m.status = "triggered" THEN ProcessTriggered(s1, m)
         ELSE IF m.status \in Remove THEN ProcessRemove(s1, m)
         ELSE s1

(* ------------------- OrderManagementSystem.order_error ------------------ *)
order_error(st, id) ==
    LET s1 == IF Has(st.orders.to_create, id)
              THEN [st EXCEPT !.orders.to_create = Del(@, id)]
              ELSE IF Has(st.orders.to_amend, id)
              THEN [st EXCEPT !.orders.to_amend = Del(@, id)]
              ELSE IF Has(st.orders.to_cancel, CKey(id))
              THEN [st EXCEPT !.orders.to_cancel = Del(@, CKey(id))]
              ELSE st
        s2 == IF Has(s1.orders.tp, id)
              THEN [s1 EXCEPT !.orders.tp = Del(@, id)]
              ELSE IF Has(s1.orders.sl, id)
              THEN [s1 EXCEPT !.orders.sl = Del(@, id)]
              ELSE s1
    IN IF Has(s2.orders.in_flight, id)
       THEN [s2 EXCEPT !.orders.in_flight = Del(@, id)]
       ELSE s2

RECURSIVE order_errors(_, _)
order_errors(st, ids) ==
    IF ids = <<>> THEN st
    ELSE order_errors(order_error(st, Head(ids)), Tail(ids))

(* --------- OrderManagementSystem.create_orders / amend_orders ----------- *)
(* the part that runs before the REST call is awaited                       *)
RECURSIVE create_orders(_, _)
create_orders(st, new_orders) ==
    IF new_orders = <<>> THEN st
    ELSE LET c == Head(new_orders)
             s1 == [st EXCEPT !.orders.in_flight = Put(@, c)]
             s2 == IF st.objs[c].orderType \in Conditional
                   THEN [s1 EXCEPT !.orders.to_be_triggered = Put(@, c)]
                   ELSE s1
         IN create_orders(s2, Tail(new_orders))

amend_orders(st, new_orders) == create_orders(st, new_orders)

(* ------------------------------ orders --------------------------------- *)
NewOrder(side, otype, tif, price, size, oid, ts) ==
    [side |-> side, orderType |-> otype, timeInForce |-> tif,
     price |-> price, size |-> size, orderId |-> oid,
     reduceOnly |-> FALSE, status |-> OrderStatus.IN_FLIGHT,
     timestamp |-> ts]

(* HlOrderIdGenerator.generate_order_id: ld is levelDict, keyed by level    *)
NextId(ld, level) ==
    level * LevelBase + (IF level >= 0 THEN ld[level] + 1 ELSE ld[level] - 1)
Bump(ld, level) ==
    [ld EXCEPT ![level] = IF level >= 0 THEN @ + 1 ELSE @ - 1]
CanGenerate(ld, level, n) ==
    Abs(ld[level]) + n <= (IF level = 0 THEN MaxTpSeq ELSE MaxSeq)

(* ------------------- HlPositionHandler.process (one fill) --------------- *)
(* Position.reset assigns _price, so entryPrice keeps its last value        *)
PositionReset(pos) ==
    [pos EXCEPT !.side = None, !.size = 0, !.openTime = now]

PositionUpdate(pos, side, entry, size, ts) ==
    [side |-> side, entryPrice |-> entry, size |-> size,
     openTime |-> IF side # pos.side THEN ts ELSE pos.openTime]

FillPosition(pos, fside, sz, px) ==
    LET start_size == pos.size
        new_size == start_size + fside * sz
        new_avg == IF start_size * new_size > 0
                   THEN IF Abs(new_size) >= Abs(start_size)
                        THEN (pos.entryPrice * Abs(pos.size) + px * sz)
                                 \div Abs(new_size)
                        ELSE pos.entryPrice
                   ELSE px
    IN IF new_size = 0 THEN PositionReset(pos)
       ELSE PositionUpdate(pos, IF new_size > 0 THEN 1 ELSE -1,
                           new_avg, new_size, now)

Fill(fside) ==
    /\ Abs(position.size + fside) <= MaxLots
    /\ position' = FillPosition(position, fside, 1, FillPx)
    /\ flags' = [flags EXCEPT !.position = (position'.size # 0)]
    /\ UNCHANGED <<orders, objs, levelDict, now, venue, tick, mon, mid, orderbook, update_id, ws>>

(* --------------------------- monitor waiters ---------------------------- *)
(* Event.set() completes the pending flag.wait() task of that flag          *)
Wake(m, fl) ==
    [m EXCEPT !.pending = {f \in @ : ~fl[f]},
              !.done = @ \cup {f \in m.pending : fl[f]}]

(* ---------------- SandBoxQuoteGenerator.position_executor --------------- *)
TpPrice(entry, closing_side) ==
    LET tpd == (entry * take_profit_pct) \div 100
    IN IF closing_side = Side.SELL THEN entry + tpd ELSE entry - tpd

ActiveTps(ords, ob) ==
    SelectSeq(ords.tp,
              LAMBDA t : \E b \in Keys(ords.in_the_book) : OrderEq(ob[t], ob[b]))

NewestIdx(active, ob) ==
    CHOOSE i \in 1..Len(active) :
        /\ \A j \in 1..Len(active) : ob[active[j]].timestamp <= ob[active[i]].timestamp
        /\ \A j \in 1..(i - 1) : ob[active[j]].timestamp < ob[active[i]].timestamp

RemoveAt(sq, i) == SubSeq(sq, 1, i - 1) \o SubSeq(sq, i + 1, Len(sq))

RECURSIVE PutAll(_, _)
PutAll(d, ks) == IF ks = <<>> THEN d ELSE PutAll(Put(d, Head(ks)), Tail(ks))

CKeys(ids) == [i \in 1..Len(ids) |-> CKey(ids[i])]

PEBranch(ords, ob) ==
    LET active == ActiveTps(ords, ob)
    IN IF Len(ords.tp) = 0 THEN "create"
       ELSE IF Len(active) > 1 THEN "cancel"
       ELSE IF Len(active) > 0 /\ Len(ords.tp) - Len(active) = 0 THEN "amend"
       ELSE "wait"

position_executor ==
    /\ flags.position
    /\ position.size # 0
    /\ LET branch == PEBranch(orders, objs)
           is_previous_tp == Len(orders.tp) > 0
           active == ActiveTps(orders, objs)
           closing_side == IF position.size > 0 THEN Side.SELL ELSE Side.BUY
           old_tps == IF branch = "cancel"
                      THEN RemoveAt(active, NewestIdx(active, objs)) ELSE <<>>
           apt == IF branch = "cancel" THEN active[NewestIdx(active, objs)]
                  ELSE IF branch = "amend" THEN active[1] ELSE NoCloid
           oid == IF is_previous_tp THEN objs[apt].orderId ELSE None
           liq == now - position.openTime >= liquidation_timer
           tpId == NextId(levelDict, 0)
           tpOrder == NewOrder(closing_side, OrderType.LIMIT, TimeInForce.POST_ONLY,
                               TpPrice(position.entryPrice, closing_side),
                               Abs(position.size), oid, now)
           mkId == NextId(Bump(levelDict, 0), 0)
           mkOrder == NewOrder(closing_side, OrderType.MARKET, TimeInForce.FOK,
                               0, Abs(position.size), oid, now)
           same == is_previous_tp /\ OrderEq(tpOrder, objs[apt])
           planned == IF liq THEN <<mkId>> ELSE IF same THEN <<>> ELSE <<tpId>>
           queue == IF planned = <<>> THEN "none"
                    ELSE IF ~is_previous_tp THEN "to_create"
                    ELSE IF Len(orders.tp) <= 2 THEN "to_amend" ELSE "none"
           o1 == [orders EXCEPT !.to_cancel = PutAll(@, CKeys(old_tps))]
           o2 == IF queue = "none" THEN o1
                 ELSE [o1 EXCEPT !.tp = Put(@, planned[1]),
                                 ![queue] = Put(@, planned[1])]
           f1 == [flags EXCEPT !.to_cancel = @ \/ branch = "cancel",
                               !.position = FALSE]
           f2 == IF queue = "none" THEN f1 ELSE [f1 EXCEPT ![queue] = TRUE]
       IN IF branch = "wait"
          THEN /\ flags' = [flags EXCEPT !.position = FALSE]
               /\ UNCHANGED <<orders, objs, levelDict, mon, mid, orderbook, update_id, ws>>
          ELSE /\ CanGenerate(levelDict, 0, IF liq THEN 2 ELSE 1)
               /\ orders' = o2
               /\ flags' = f2
               /\ objs' = IF queue = "none" THEN objs
                          ELSE (planned[1] :> (IF liq THEN mkOrder ELSE tpOrder)) @@ objs
               /\ levelDict' = IF liq THEN Bump(Bump(levelDict, 0), 0)
                               ELSE Bump(levelDict, 0)
               /\ mon' = Wake(mon, f2)
    /\ UNCHANGED <<position, now, venue, tick, mid, orderbook, update_id, ws>>

(* --------------- SandBoxQuoteGenerator.generate_stinky_orders ----------- *)
RoundDiv(a, b) == (2 * a + b) \div (2 * b)

BidSize(pos, m) ==
    LET budget == RoundDiv(max_position, m)
    IN IF pos.size <= 0 /\ pos.side = Side.BUY
       THEN IF budget - Abs(pos.size) > 0 THEN budget - Abs(pos.size) ELSE 0
       ELSE budget

AskSize(pos, m) ==
    LET budget == RoundDiv(max_position, m)
    IN IF pos.size <= 0 /\ pos.side # Side.BUY
       THEN IF budget - Abs(pos.size) > 0 THEN budget - Abs(pos.size) ELSE 0
       ELSE budget

(* one level per side (total_orders // 2 = 1): the bid, then the ask        *)
generate_orders(pos, m, ld, t) ==
    LET bid == [id |-> NextId(ld, 1),
                o |-> NewOrder(Side.BUY, OrderType.LIMIT, TimeInForce.POST_ONLY,
                               m - HalfSpread, BidSize(pos, m), None, t)]
        ask == [id |-> NextId(ld, -1),
                o |-> NewOrder(Side.SELL, OrderType.LIMIT, TimeInForce.POST_ONLY,
                               m + HalfSpread, AskSize(pos, m), None, t)]
    IN (IF BidSize(pos, m) > 0 THEN <<bid>> ELSE <<>>)
       \o (IF AskSize(pos, m) > 0 THEN <<ask>> ELSE <<>>)

(* ---------------------- OrderManagementSystem.update -------------------- *)
is_out_of_bounds(old_order, new_order, m) ==
    SensitivityInv * Abs(old_order.price - new_order.price)
        > Abs(new_order.price - m)

(* first in-flight order the proposal equals or is in bounds of, else 0     *)
SimilarInFlight(inf, ob, o, m) ==
    LET hits == SelectSeq(inf, LAMBDA f :
                    OrderEq(o, ob[f]) \/ ~is_out_of_bounds(ob[f], o, m))
    IN IF hits = <<>> THEN NoCloid ELSE hits[1]

find_matched_order(book, id) ==
    LET hits == SelectSeq(book, LAMBDA b : match_level(b) = match_level(id))
    IN IF hits = <<>> THEN NoCloid ELSE hits[1]

SameSideLimits(book, ob, o) ==
    SelectSeq(book, LAMBDA b : ob[b].side = o.side
                               /\ ob[b].orderType = OrderType.LIMIT)

RiskOk(pos, o) ==
    \/ pos.entryPrice = None
    \/ Abs(pos.size * pos.entryPrice + o.side * o.size * o.price) < max_position

(* acc = [in_flight, to_create, cancels, aborted]; one proposal of the loop *)
UpdateOne(acc, p, ords, ob, pos, m, t) ==
    LET sim == SimilarInFlight(acc.in_flight, ob, p.o, m)
        matched == find_matched_order(ords.in_the_book, p.id)
        same_side == SameSideLimits(ords.in_the_book, ob, p.o)
    IN IF sim # NoCloid
       THEN IF t - ob[sim].timestamp < DropAgeMs
            THEN acc
            ELSE [acc EXCEPT !.in_flight = Del(@, sim),
                             !.to_create = Append(@, p),
                             !.evicted = Append(@, sim)]
       ELSE IF p.o.orderType # OrderType.LIMIT
       THEN [acc EXCEPT !.to_create = Append(@, p)]
       ELSE IF matched # NoCloid
       THEN IF is_out_of_bounds(ob[matched], p.o, m)
            THEN [acc EXCEPT !.cancels = Append(@, CKey(matched)),
                             !.to_create = Append(@, p)]
            ELSE acc
       ELSE IF Len(ords.in_the_book) - Len(ords.tp) < total_orders
       THEN IF RiskOk(pos, p.o)
            THEN [acc EXCEPT !.to_create = Append(@, p)]
            ELSE acc
       ELSE IF Len(same_side) = 1
            THEN acc
            ELSE [acc EXCEPT !.aborted = TRUE]

RECURSIVE UpdateLoop(_, _, _, _, _, _, _)
UpdateLoop(acc, ps, ords, ob, pos, m, t) ==
    IF ps = <<>> \/ acc.aborted THEN acc
    ELSE UpdateLoop(UpdateOne(acc, Head(ps), ords, ob, pos, m, t),
                    Tail(ps), ords, ob, pos, m, t)

UpdatePlan(ps, ords, ob, pos, m, t) ==
    UpdateLoop([in_flight |-> ords.in_flight, to_create |-> <<>>,
                cancels |-> ords.to_cancel, evicted |-> <<>>,
                aborted |-> FALSE],
               ps, ords, ob, pos, m, t)

St == [orders |-> orders, flags |-> flags, objs |-> objs, raised |-> FALSE]

RECURSIVE SetToSeq(_)
SetToSeq(S) == IF S = {} THEN <<>>
               ELSE LET x == CHOOSE y \in S : \A z \in S : y <= z
                    IN <<x>> \o SetToSeq(S \ {x})

Ids(ps) == [i \in 1..Len(ps) |-> ps[i].id]

RECURSIVE Alloc(_, _)
Alloc(ob, ps) == IF ps = <<>> THEN ob
                 ELSE Alloc((Head(ps).id :> Head(ps).o) @@ ob, Tail(ps))

RECURSIVE Submit(_, _)
Submit(v, ids) == IF ids = <<>> THEN v
                  ELSE Submit(IF Head(ids) \in DOMAIN v THEN v
                              ELSE (Head(ids) :> "new") @@ v, Tail(ids))

(* One tick of the main loop up to its first await: m is                    *)
(* data["orderbook"].mid as the tick reads it.  An exception in the loop    *)
(* skips the create batch; the cancel tasks already created still run, and  *)
(* nobody reads their results.                                              *)
Update(m) ==
    /\ tick.pc = "idle"
    /\ CanGenerate(levelDict, 1, 1)
    /\ CanGenerate(levelDict, -1, 1)
    /\ LET ps == generate_orders(position, m, levelDict, now)
           plan == UpdatePlan(ps, orders, objs, position, m, now)
           sent == IF plan.aborted THEN <<>> ELSE plan.to_create
           ob1 == Alloc(objs, sent)
           s0 == [orders |-> [orders EXCEPT !.in_flight = plan.in_flight],
                  flags |-> flags, objs |-> ob1, raised |-> FALSE]
           s1 == create_orders(s0, Ids(sent))
       IN /\ orders' = s1.orders
          /\ objs' = ob1
          /\ levelDict' = [l \in Levels |->
                             IF \E i \in 1..Len(ps) : ps[i].id = NextId(levelDict, l)
                             THEN Bump(levelDict, l)[l] ELSE levelDict[l]]
          /\ venue' = Submit(venue, Ids(sent))
          /\ tick' = IF plan.aborted \/ (sent = <<>> /\ plan.cancels = <<>>)
                     THEN [pc |-> "idle", creates |-> <<>>,
                           cancels |-> plan.cancels]
                     ELSE [pc |-> "await", creates |-> Ids(sent),
                           cancels |-> plan.cancels]
    /\ mid' = m
    /\ UNCHANGED <<flags, position, now, mon, orderbook, update_id, ws>>

(* results of the gathered tasks: every failed id goes to order_error       *)
Failable(creates, cancels) ==
    {c \in Keys(creates) : venue[c] = "new"}
      \cup {k.key : k \in {x \in Keys(cancels) : x.kind = "cloid"}}

UpdateDone(F) ==
    /\ tick.pc = "await"
    /\ F \subseteq Failable(tick.creates, tick.cancels)
    /\ LET s1 == order_errors(St, SetToSeq(F))
       IN /\ orders' = s1.orders
          /\ venue' = [c \in DOMAIN venue |->
                         IF c \in F /\ c \in Keys(tick.creates)
                         THEN "closed" ELSE venue[c]]
          /\ tick' = [pc |-> "idle", creates |-> <<>>, cancels |-> <<>>]
    /\ UNCHANGED <<flags, objs, position, levelDict, now, mon, mid, orderbook, update_id, ws>>

(* --------------------- OrderManagementSystem.monitor -------------------- *)
(* asyncio.wait returns every completed waiter; done.pop() keeps one and    *)
(* the others are dropped with the done set                                 *)
MonitorWake(f) ==
    /\ mon.pc = "wait"
    /\ f \in mon.done
    /\ LET batch == orders[f]
           s1 == IF f = "to_cancel" THEN St ELSE create_orders(St, batch)
       IN /\ orders' = s1.orders
          /\ venue' = IF f = "to_cancel" THEN venue ELSE Submit(venue, batch)
          /\ mon' = [mon EXCEPT !.pc = "await", !.task = f, !.batch = batch,
                                !.done = {}]
    /\ UNCHANGED <<flags, objs, position, levelDict, now, tick, mid, orderbook, update_id, ws>>

MonFailable ==
    IF mon.task = "to_cancel"
    THEN {k.key : k \in Keys(mon.batch)}
    ELSE {c \in Keys(mon.batch) : venue[c] = "new"}

(* the batch call returned: failures go to order_error, the flag is cleared *)
(* and a new waiter is created.  A cancel batch that holds a placeholder    *)
(* (clientOrderId None) cannot build its result and raises instead.         *)
MonitorDone(F) ==
    /\ mon.pc = "await"
    /\ ~(mon.task = "to_cancel" /\ \E k \in Keys(mon.batch) : k.kind = "oid")
    /\ F \subseteq MonFailable
    /\ LET s1 == order_errors(St, SetToSeq(F))
       IN /\ orders' = s1.orders
          /\ flags' = [flags EXCEPT ![mon.task] = FALSE]
          /\ venue' = [c \in DOMAIN venue |->
                         IF c \in F /\ mon.task # "to_cancel"
                         THEN "closed" ELSE venue[c]]
          /\ mon' = [mon EXCEPT !.pc = "wait", !.task = "none", !.batch = <<>>,
                                !.pending = @ \cup {mon.task}]
    /\ UNCHANGED <<objs, position, levelDict, now, tick, mid, orderbook, update_id, ws>>

(* the awaited batch raised: logged, flag left set, no waiter re-created    *)
MonitorRaise ==
    /\ mon.pc = "await"
    /\ mon' = [mon EXCEPT !.pc = "wait", !.task = "none", !.batch = <<>>]
    /\ UNCHANGED <<orders, flags, objs, position, levelDict, now, venue, tick, mid, orderbook, update_id, ws>>

(* ------------------------ order-update stream --------------------------- *)
VenueStatuses(vs) ==
    IF vs = "new" THEN {"open", "rejected"}
    ELSE IF vs = "open" THEN {"filled", "canceled", "marginCanceled"}
    ELSE {}

Deliver(m) ==
    LET s1 == Process(St, m)
    IN /\ orders' = s1.orders
       /\ flags' = s1.flags
       /\ objs' = s1.objs
       /\ mon' = Wake(mon, s1.flags)

OrderUpdate(c, status) ==
    /\ c \in DOMAIN venue
    /\ c # NoCloid
    /\ status \in VenueStatuses(venue[c])
    /\ Deliver([status |-> status, cloid |-> c, oid |-> Oid(c), ts |-> now])
    /\ venue' = [venue EXCEPT ![c] = IF status = "open" THEN "open" ELSE "closed"]
    /\ UNCHANGED <<position, levelDict, now, tick, mid, orderbook, update_id, ws>>

(* an order of the account that carries no cloid                            *)
ForeignUpdate(status) ==
    /\ \/ status = "open" /\ venue[NoCloid] = "none"
       \/ status = "canceled" /\ venue[NoCloid] = "open"
    /\ Deliver([status |-> status, cloid |-> NoCloid, oid |-> ForeignOid, ts |-> now])
    /\ venue' = [venue EXCEPT ![NoCloid] = IF status = "open" THEN "open" ELSE "closed"]
    /\ UNCHANGED <<position, levelDict, now, tick, mid, orderbook, update_id, ws>>

(* ------------------------- BaseOrderbook ------------------------------- *)
(* Each side is a numpy array of [price, size] rows: a sequence of rows.    *)
(* The constructor fills both sides with depth rows of zeros.               *)
Depth == 2
Prices == {99, 100, 101}
Sizes == {1, 2}
ZeroRow == [px |-> 0, sz |-> 0]
Row(p, z) == [px |-> p, sz |-> z]

BaseOrderbook ==
    [bids |-> [i \in 1..Depth |-> ZeroRow],
     asks |-> [i \in 1..Depth |-> ZeroRow],
     bba |-> <<ZeroRow, ZeroRow>>,
     timestamp |-> 0,
     seq_id |-> 0,
     raised |-> FALSE]

Min(a, b) == IF a < b THEN a ELSE b
Take(rows, n) == SubSeq(rows, 1, Min(n, Len(rows)))

(* tools.Numbas: a sort of the rows on the price column, rows of equal      *)
(* price keeping their order                                                *)
RECURSIVE InsertDesc(_, _)
InsertDesc(sorted, r) ==
    IF sorted = <<>> THEN <<r>>
    ELSE IF Head(sorted).px >= r.px
         THEN <<Head(sorted)>> \o InsertDesc(Tail(sorted), r)
         ELSE <<r>> \o sorted

RECURSIVE numba_sort_desc(_)
numba_sort_desc(rows) ==
    IF rows = <<>> THEN <<>>
    ELSE InsertDesc(numba_sort_desc(SubSeq(rows, 1, Len(rows) - 1)),
                    rows[Len(rows)])

RECURSIVE InsertAsc(_, _)
InsertAsc(sorted, r) ==
    IF sorted = <<>> THEN <<r>>
    ELSE IF Head(sorted).px <= r.px
         THEN <<Head(sorted)>> \o InsertAsc(Tail(sorted), r)
         ELSE <<r>> \o sorted

RECURSIVE numba_sort_asc(_)
numba_sort_asc(rows) ==
    IF rows = <<>> THEN <<>>
    ELSE InsertAsc(numba_sort_asc(SubSeq(rows, 1, Len(rows) - 1)),
                   rows[Len(rows)])

(* nbisin(prices, delta prices): the mask of the rows the delta names       *)
nbisin(r, delta) == \E i \in 1..Len(delta) : delta[i].px = r.px

(* sort_bids / sort_asks: the slice is taken before the sort.  Row 0 of an  *)
(* empty side is read past the array (numba does not check bounds): g is    *)
(* whatever the read returns.                                               *)
sort_bids(ob, g) ==
    LET sorted == numba_sort_desc(Take(ob.bids, Depth))
    IN [ob EXCEPT !.bids = sorted,
                  !.bba[1] = IF sorted = <<>> THEN g ELSE sorted[1]]

sort_asks(ob, g) ==
    LET sorted == numba_sort_asc(Take(ob.asks, Depth))
    IN [ob EXCEPT !.asks = sorted,
                  !.bba[2] = IF sorted = <<>> THEN g ELSE sorted[1]]

NextSeq(ob, new_seq_id) == IF new_seq_id = 0 THEN ob.seq_id + 1 ELSE new_seq_id

(* self.side[:n] = rows[:n]: the first n rows are overwritten, the others   *)
(* stay                                                                     *)
Overwrite(side, rows) ==
    [i \in 1..Len(side) |-> IF i <= Len(rows) THEN rows[i] ELSE side[i]]

(* refresh: a side that a delta left with fewer rows than the snapshot      *)
(* brings cannot take the slice assignment, which raises after the asks     *)
(* were written                                                             *)
refresh(ob, bids, asks, timestamp, new_seq_id, g) ==
    LET new_asks == Take(asks, Depth)
        new_bids == Take(bids, Depth)
        o0 == [ob EXCEPT !.raised = FALSE]
    IN IF Len(ob.asks) < Len(new_asks)
       THEN [o0 EXCEPT !.raised = TRUE]
       ELSE IF Len(ob.bids) < Len(new_bids)
       THEN [o0 EXCEPT !.asks = Overwrite(@, new_asks), !.raised = TRUE]
       ELSE sort_asks(sort_bids(
                [o0 EXCEPT !.asks = Overwrite(@, new_asks),
                           !.bids = Overwrite(@, new_bids),
                           !.timestamp = timestamp,
                           !.seq_id = NextSeq(ob, new_seq_id)], g), g)

NonZero(delta) == SelectSeq(delta, LAMBDA r : r.sz # 0)

update_bids(ob, bids, timestamp, new_seq_id, g) ==
    IF bids = <<>> THEN ob
    ELSE LET kept == SelectSeq(ob.bids, LAMBDA r : ~nbisin(r, bids))
             o1 == sort_bids([ob EXCEPT !.seq_id = NextSeq(ob, new_seq_id),
                                        !.bids = kept \o NonZero(bids),
                                        !.raised = FALSE], g)
         IN [o1 EXCEPT !.timestamp = IF @ < timestamp THEN timestamp ELSE @]

update_asks(ob, asks, timestamp, new_seq_id, g) ==
    IF asks = <<>> THEN ob
    ELSE LET kept == SelectSeq(ob.asks, LAMBDA r : ~nbisin(r, asks))
             o1 == sort_asks([ob EXCEPT !.seq_id = NextSeq(ob, new_seq_id),
                                        !.asks = kept \o NonZero(asks),
                                        !.raised = FALSE], g)
         IN [o1 EXCEPT !.timestamp = IF @ < timestamp THEN timestamp ELSE @]

(* ----------------------------- market data ------------------------------ *)
MaxUpdateId == 2
MaxTs == 2
UpdateIds == 0..MaxUpdateId
Stamps == 1..MaxTs
GarbageRows == {ZeroRow, Row(100, 1)}

(* what row 0 of a side reads once the delta is applied                     *)
Left(side, delta) == SelectSeq(side, LAMBDA r : ~nbisin(r, delta)) \o NonZero(delta)
Reads(side, delta) ==
    IF delta # <<>> /\ Left(side, delta) = <<>> THEN GarbageRows ELSE {ZeroRow}

(* the levels of one side of a venue snapshot: distinct prices, best first  *)
SnapshotSide(S, z, desc) ==
    LET rows == [i \in 1..Cardinality(S) |->
                    Row(CHOOSE p \in S : Cardinality({q \in S : q < p}) = i - 1, z)]
    IN IF desc THEN numba_sort_desc(rows) ELSE rows

(* an uncrossed book: every bid price below every ask price                 *)
Snapshots ==
    {[bids |-> SnapshotSide(B, z, TRUE), asks |-> SnapshotSide(A, z, FALSE)] :
        <<B, A, z>> \in {x \in (SUBSET Prices) \X (SUBSET Prices) \X Sizes :
                            /\ x[1] # {} /\ x[2] # {}
                            /\ \A b \in x[1], a \in x[2] : b < a}}

(* the rows of one side of a delta: at most two prices, size 0 removes      *)
DeltaRows == {Row(p, z) : p \in Prices, z \in {0} \cup Sizes}
Deltas ==
    {<<r>> : r \in DeltaRows}
      \cup {<<r, q>> : <<r, q>> \in {x \in DeltaRows \X DeltaRows : x[1].px # x[2].px}}

(* the replica driven call by call; a snapshot has a level on each side, so *)
(* refresh never sorts an empty side                                        *)
Refresh(snap, ts, id) ==
    /\ id = 0 => orderbook.seq_id < MaxUpdateId + 1
    /\ orderbook' = refresh(orderbook, snap.bids, snap.asks, ts, id, ZeroRow)
    /\ UNCHANGED <<orders, flags, objs, position, levelDict, now, venue,
                   tick, mon, mid, update_id, ws>>

UpdateBids(delta, ts, id, g) ==
    /\ g \in Reads(orderbook.bids, delta)
    /\ id = 0 => orderbook.seq_id < MaxUpdateId + 1
    /\ orderbook' = update_bids(orderbook, delta, ts, id, g)
    /\ UNCHANGED <<orders, flags, objs, position, levelDict, now, venue,
                   tick, mon, mid, update_id, ws>>

UpdateAsks(delta, ts, id, g) ==
    /\ g \in Reads(orderbook.asks, delta)
    /\ id = 0 => orderbook.seq_id < MaxUpdateId + 1
    /\ orderbook' = update_asks(orderbook, delta, ts, id, g)
    /\ UNCHANGED <<orders, flags, objs, position, levelDict, now, venue,
                   tick, mon, mid, update_id, ws>>

(* BinanceOrderbookHandler.refresh: the snapshot's asks are passed as the   *)
(* replica's bids parameter and its bids as the asks parameter              *)
BinanceRefresh(snap, ts, id) ==
    /\ id = 0 => orderbook.seq_id < MaxUpdateId + 1
    /\ update_id' = id
    /\ orderbook' = refresh(orderbook, snap.asks, snap.bids, ts, id, ZeroRow)
    /\ UNCHANGED <<orders, flags, objs, position, levelDict, now, venue,
                   tick, mon, mid, ws>>

(* a delta that repeats the id of the last applied update is applied again *)
processAtLeast(ob, uid, recv, g) ==
    IF recv.u >= uid
    THEN LET o1 == IF Len(recv.b) > 0
                   THEN update_bids(ob, recv.b, recv.T, recv.u, g) ELSE ob
             o2 == IF Len(recv.a) > 0
                   THEN update_asks(o1, recv.a, recv.T, recv.u, g) ELSE o1
         IN [orderbook |-> o2, update_id |-> recv.u]
    ELSE [orderbook |-> ob, update_id |-> uid]

(* BinanceOrderbookHandler.process: recv = [u, T, b, a]                     *)
process(ob, uid, recv, g) ==
    IF recv.u > uid
    THEN LET o1 == IF Len(recv.b) > 0
                   THEN update_bids(ob, recv.b, recv.T, recv.u, g) ELSE ob
             o2 == IF Len(recv.a) > 0
                   THEN update_asks(o1, recv.a, recv.T, recv.u, g) ELSE o1
         IN [orderbook |-> o2, update_id |-> recv.u]
    ELSE [orderbook |-> ob, update_id |-> uid]

BinanceProcess(recv, g) ==
    /\ g \in Reads(orderbook.bids, recv.b) \cup Reads(orderbook.asks, recv.a)
    /\ orderbook' = process(orderbook, update_id, recv, g).orderbook
    /\ update_id' = process(orderbook, update_id, recv, g).update_id
    /\ UNCHANGED <<orders, flags, objs, position, levelDict, now, venue,
                   tick, mon, mid, ws>>

(* --------------------------- WebsocketStream ---------------------------- *)
(* One connection under _create_reconnect_task_.  pc is where the task is:  *)
(* "connect" (about to call ws_connect), "open" (in the receive loop),      *)
(* "returned" (_single_conn_ returned; reconnect holds what it returned),   *)
(* "sleep" (asyncio.sleep), "stopped" (the supervising loop broke).         *)
MaxConns == 4
MaxQueued == 4
ReconnectSleepMs == 1000

WebsocketStream(ws_record) ==
    [ws_record |-> ws_record, pc |-> "connect", reconnect |-> "None",
     conns |-> 0, queued |-> 0, handled |-> 0, sleep_ms |-> 0,
     closed |-> FALSE]

WsFrame ==
    UNCHANGED <<orders, flags, objs, position, levelDict, now, venue,
                tick, mon, mid, orderbook, update_id>>

(* session.ws_connect: the connection opens or the call raises              *)
WsConnect(ok) ==
    /\ ws.pc = "connect"
    /\ ws.conns < MaxConns
    /\ ws' = IF ok
             THEN [ws EXCEPT !.pc = "open", !.conns = @ + 1, !.closed = FALSE,
                             !.reconnect = "None"]
             ELSE [ws EXCEPT !.pc = "returned", !.conns = @ + 1,
                             !.closed = TRUE, !.reconnect = "True"]
    /\ WsFrame

(* one message of the receive loop; the loop body starts with               *)
(* message_queue.put, and message_queue exists only when ws_record is set.  *)
(* handled counts the calls of handler_map: the branch of a TEXT or BINARY  *)
(* message is `pass`, so no step changes it.                                *)
WsMessage(type) ==
    /\ ws.pc = "open"
    /\ ~ws.closed
    /\ ws.queued < MaxQueued
    /\ ws' = IF ~ws.ws_record
             THEN [ws EXCEPT !.pc = "returned", !.reconnect = "True",
                             !.closed = (type = "ERROR")]
             ELSE [ws EXCEPT !.queued = @ + 1, !.closed = (type = "ERROR")]
    /\ WsFrame

(* the iterator stops on a CLOSE, CLOSING or CLOSED message: the loop and   *)
(* the function end without a return statement                              *)
WsStreamEnd ==
    /\ ws.pc = "open"
    /\ ws' = [ws EXCEPT !.pc = "returned", !.reconnect = "None", !.closed = TRUE]
    /\ WsFrame

(* the task is cancelled while it waits for a message                       *)
WsCancel ==
    /\ ws.pc = "open"
    /\ ~ws.closed
    /\ ws' = [ws EXCEPT !.pc = "returned", !.reconnect = "False"]
    /\ WsFrame

(* _create_reconnect_task_: if not reconnect: break, else sleep(1.0)        *)
WsSupervise ==
    /\ ws.pc = "returned"
    /\ ws' = IF ws.reconnect = "True"
             THEN [ws EXCEPT !.pc = "sleep", !.sleep_ms = ReconnectSleepMs]
             ELSE [ws EXCEPT !.pc = "stopped"]
    /\ WsFrame

WsSleepDone ==
    /\ ws.pc = "sleep"
    /\ ws' = [ws EXCEPT !.pc = "connect"]
    /\ WsFrame

(* ------------------------------ environment ----------------------------- *)
Advance ==
    /\ now < ClockStep * (MaxClock + 1)
    /\ now' = now + ClockStep
    /\ UNCHANGED <<orders, flags, objs, position, levelDict, venue, tick, mon, mid, orderbook, update_id, ws>>

(* ------------------------------ behaviours ------------------------------ *)
InitCore ==
    /\ orders = [to_create |-> <<>>, to_amend |-> <<>>, to_cancel |-> <<>>,
                 tp |-> <<>>, sl |-> <<>>, in_flight |-> <<>>,
                 to_be_triggered |-> <<>>, in_the_book |-> <<>>,
                 recently_cancelled |-> <<>>]
    /\ flags = [position |-> FALSE, to_create |-> FALSE, to_amend |-> FALSE,
                to_cancel |-> FALSE]
    /\ objs = <<>>
    /\ position = [side |-> None, entryPrice |-> None, size |-> 0, openTime |-> None]
    /\ levelDict = [l \in Levels |-> 0]
    /\ now = ClockStep
    /\ venue = (NoCloid :> "none")
    /\ tick = [pc |-> "idle", creates |-> <<>>, cancels |-> <<>>]
    /\ mon = [pc |-> "wait", task |-> "none", batch |-> <<>>,
              pending |-> FlagNames, done |-> {}]
    /\ mid = 100
    /\ orderbook = BaseOrderbook
    /\ update_id = 0

(* the venue streams are built with the default ws_record = False           *)
Init ==
    /\ InitCore
    /\ ws = WebsocketStream(FALSE)

Next ==
    \/ \E m \in Mids : Update(m)
    \/ \E F \in SUBSET Failable(tick.creates, tick.cancels) : UpdateDone(F)
    \/ position_executor
    \/ \E f \in FlagNames : MonitorWake(f)
    \/ \E F \in SUBSET MonFailable : MonitorDone(F)
    \/ MonitorRaise
    \/ \E c \in DOMAIN venue, s \in Statuses : OrderUpdate(c, s)
    \/ \E s \in {"open", "canceled"} : ForeignUpdate(s)
    \/ \E sd \in {Side.BUY, Side.SELL} : Fill(sd)
    \/ Advance

Spec == Init /\ [][Next]_vars

(* position executor, monitor and order stream                             *)
NextPE ==
    \/ position_executor
    \/ \E f \in FlagNames : MonitorWake(f)
    \/ \E F \in SUBSET MonFailable : MonitorDone(F)
    \/ \E c \in DOMAIN venue, s \in Statuses : OrderUpdate(c, s)
    \/ \E sd \in {Side.BUY, Side.SELL} : Fill(sd)
    \/ Advance

SpecPE == Init /\ [][NextPE]_vars

(* reconciliation ticks against the order stream, position never opened    *)
NextOMS ==
    \/ \E m \in Mids : Update(m)
    \/ \E F \in SUBSET Failable(tick.creates, tick.cancels) : UpdateDone(F)
    \/ \E c \in DOMAIN venue, s \in Statuses : OrderUpdate(c, s)

SpecOMS == Init /\ [][NextOMS]_vars

(* reconciliation ticks at a steady mid, with fills, late acknowledgements  *)
(* and orders of the account that carry no cloid                            *)
NextAck ==
    \/ /\ Abs(levelDict[1]) < MMSeq
       /\ Abs(levelDict[-1]) < MMSeq
       /\ Update(mid)
    \/ \E F \in SUBSET Failable(tick.creates, tick.cancels) : UpdateDone(F)
    \/ \E c \in DOMAIN venue, s \in Statuses : OrderUpdate(c, s)
    \/ \E s \in {"open", "canceled"} : ForeignUpdate(s)
    \/ \E sd \in {Side.BUY, Side.SELL} : Fill(sd)
    \/ Advance

SpecAck == Init /\ [][NextAck]_vars

(* ticks, the clock and the order stream: acknowledgements that arrive     *)
(* after the tick gave the order up (filled and marginCanceled take the     *)
(* handler path of canceled)                                                *)
NextLate ==
    \/ /\ Abs(levelDict[1]) < MMSeq
       /\ Abs(levelDict[-1]) < MMSeq
       /\ Update(mid)
    \/ \E F \in SUBSET Failable(tick.creates, tick.cancels) : UpdateDone(F)
    \/ \E c \in DOMAIN venue, s \in {"open", "rejected", "canceled"} :
           OrderUpdate(c, s)
    \/ Advance

SpecLate == Init /\ [][NextLate]_vars

(* every task together while the venue acknowledges nothing                 *)
NextMM ==
    \/ /\ Abs(levelDict[1]) < MMSeq
       /\ Abs(levelDict[-1]) < MMSeq
       /\ Update(mid)
    \/ UpdateDone({})
    \/ levelDict[0] < MMTp /\ position_executor
    \/ \E f \in FlagNames : MonitorWake(f)
    \/ MonitorDone({})
    \/ MonitorRaise
    \/ \E sd \in {Side.BUY, Side.SELL} : Fill(sd)
    \/ Advance

SpecMM == Init /\ [][NextMM]_vars

(* every task together while the venue acknowledges late: the only order   *)
(* events are "open" acknowledgements                                       *)
NextTag ==
    \/ /\ Abs(levelDict[1]) < MMSeq
       /\ Abs(levelDict[-1]) < MMSeq
       /\ Update(mid)
    \/ UpdateDone({})
    \/ levelDict[0] < MMTp /\ position_executor
    \/ \E f \in FlagNames : MonitorWake(f)
    \/ MonitorDone({})
    \/ \E c \in DOMAIN venue : OrderUpdate(c, "open")
    \/ \E sd \in {Side.BUY, Side.SELL} : Fill(sd)
    \/ Advance

SpecTag == Init /\ [][NextTag]_vars

(* create_orders called with one order of a given type, a conditional     *)
(* type included: the method takes any Order.  Its result is read by the    *)
(* caller as in update, every failed id going to order_error.               *)
CreateOrders(otype, level) ==
    /\ tick.pc = "idle"
    /\ CanGenerate(levelDict, level, 1)
    /\ LET id == NextId(levelDict, level)
           o == NewOrder(IF level >= 0 THEN Side.BUY ELSE Side.SELL, otype,
                         TimeInForce.GTC, mid - level * HalfSpread, 1, None, now)
           s1 == create_orders([St EXCEPT !.objs = (id :> o) @@ objs], <<id>>)
       IN /\ orders' = s1.orders
          /\ objs' = s1.objs
          /\ levelDict' = Bump(levelDict, level)
          /\ venue' = Submit(venue, <<id>>)
          /\ tick' = [pc |-> "await", creates |-> <<id>>, cancels |-> <<>>]
    /\ UNCHANGED <<flags, position, now, mon, mid, orderbook, update_id, ws>>

(* orders of plain and conditional type against the order stream            *)
NextHandler ==
    \/ \E otype \in {OrderType.LIMIT, OrderType.STOP_LIMIT} :
           /\ Abs(levelDict[1]) + Abs(levelDict[-1]) < MaxSeq
           /\ CreateOrders(otype, IF levelDict[1] = 0 THEN 1 ELSE -1)
    \/ \E F \in SUBSET Failable(tick.creates, tick.cancels) : UpdateDone(F)
    \/ \E c \in DOMAIN venue, s \in Statuses : OrderUpdate(c, s)
    \/ Advance

SpecHandler == Init /\ [][NextHandler]_vars

(* the replica under any sequence of snapshot and delta calls; a call       *)
(* carries a stamp with the venue's sequence id, or a later stamp with none *)
Calls == {[ts |-> 1, id |-> 1], [ts |-> MaxTs, id |-> 0]}

NextBook ==
    \/ \E snap \in Snapshots, c \in Calls : Refresh(snap, c.ts, c.id)
    \/ \E d \in Deltas, c \in Calls, g \in GarbageRows :
           UpdateBids(d, c.ts, c.id, g)
    \/ \E d \in Deltas, c \in Calls, g \in GarbageRows :
           UpdateAsks(d, c.ts, c.id, g)

SpecBook == Init /\ [][NextBook]_vars

(* the replica behind the Binance depth handler, on a book of two prices    *)
(* with one level a side in every message                                   *)
FeedPrices == {99, 100}
FeedSnapshots ==
    {snap \in Snapshots : /\ Len(snap.bids) = 1 /\ snap.bids[1].px \in FeedPrices
                          /\ Len(snap.asks) = 1 /\ snap.asks[1].px \in FeedPrices}
FeedDeltas ==
    {<<>>} \cup {d \in Deltas : Len(d) = 1 /\ d[1].px \in FeedPrices}
Messages ==
    {[u |-> u, T |-> ts, b |-> b, a |-> a] :
        <<u, ts, b, a>> \in UpdateIds \X Stamps \X FeedDeltas \X FeedDeltas}

NextFeed ==
    \/ \E snap \in FeedSnapshots, ts \in Stamps, id \in UpdateIds :
           BinanceRefresh(snap, ts, id)
    \/ \E recv \in Messages, g \in GarbageRows : BinanceProcess(recv, g)

SpecFeed == Init /\ [][NextFeed]_vars

(* one websocket connection and its supervising loop, with and without     *)
(* message recording                                                        *)
InitWs ==
    /\ InitCore
    /\ ws \in {WebsocketStream(r) : r \in BOOLEAN}

NextWs ==
    \/ \E ok \in BOOLEAN : WsConnect(ok)
    \/ \E type \in {"TEXT", "BINARY", "ERROR"} : WsMessage(type)
    \/ WsStreamEnd
    \/ WsCancel
    \/ WsSupervise
    \/ WsSleepDone

SpecWs == InitWs /\ [][NextWs]_vars

(* ------------------------------- claims --------------------------------- *)
Lifecycle == {"in_flight", "to_be_triggered", "in_the_book", "to_cancel",
              "recently_cancelled"}

CloidsOf(part) ==
    IF part = "to_cancel"
    THEN {k.key : k \in {x \in Keys(orders.to_cancel) : x.kind = "cloid"}}
    ELSE Keys(orders[part])

InIntent(ords, q, id) ==
    IF q = "to_cancel" THEN Has(ords.to_cancel, CKey(id)) ELSE Has(ords[q], id)

Msg(c, status) == [status |-> status, cloid |-> c, oid |-> Oid(c), ts |-> now]

Proposals(m) == generate_orders(position, m, levelDict, now)

Young(f) == now - objs[f].timestamp < DropAgeMs
Stale(f) == now - objs[f].timestamp > DropAgeMs

NoSimilarInFlight(p, m) == SimilarInFlight(orders.in_flight, objs, p.o, m) = NoCloid

Unmatched(p) ==
    /\ p.o.orderType = OrderType.LIMIT
    /\ find_matched_order(orders.in_the_book, p.id) = NoCloid

Exposure(pos, o) ==
    Abs((IF pos.size = 0 THEN 0 ELSE pos.size * pos.entryPrice)
        + o.side * o.size * o.price)

(* C1: in every reachable state no clientOrderId is a key of more than one *)
(* of in_flight, to_be_triggered, in_the_book, to_cancel and                *)
(* recently_cancelled.                                                      *)
C1_PartitionsDisjoint ==
    \A a, b \in Lifecycle : a # b => CloidsOf(a) \cap CloidsOf(b) = {}

(* C2: whenever the to_create, to_amend or to_cancel flag is set, the       *)
(* intent map of the same name is non-empty.                                *)
C2_SetFlagHasIntent ==
    \A f \in FlagNames : flags[f] => orders[f] # <<>>

(* C3: when the handler processes an "open" whose clientOrderId is not a    *)
(* key of in_flight, it queues a placeholder keyed by the venue order id in *)
(* to_cancel, sets the to_cancel flag, and adds the order neither to        *)
(* in_the_book nor to to_be_triggered.                                      *)
C3_UnknownOpenCancelled ==
    [][\A c \in DOMAIN venue \ {NoCloid} :
          (OrderUpdate(c, "open") /\ ~Has(orders.in_flight, c))
            => /\ Has(orders'.to_cancel, OKey(Oid(c)))
               /\ flags'.to_cancel
               /\ orders'.in_the_book = orders.in_the_book
               /\ orders'.to_be_triggered = orders.to_be_triggered]_vars

C3_Witness ==
    \E c \in DOMAIN venue \ {NoCloid} :
        /\ venue[c] = "open"
        /\ Has(orders.to_cancel, OKey(Oid(c)))
        /\ flags.to_cancel
        /\ ~Has(orders.in_the_book, c)

(* C4: for every message the venue can send in a reachable state,           *)
(* processing it twice in succession leaves every partition, tag set,       *)
(* intent queue and flag as processing it once does, and the second         *)
(* processing raises no error.                                              *)
C4_ReplayIdempotent ==
    \A c \in DOMAIN venue \ {NoCloid} : \A status \in VenueStatuses(venue[c]) :
        LET once == Process(St, Msg(c, status))
            twice == Process(once, Msg(c, status))
        IN /\ ~twice.raised
           /\ twice.orders = once.orders
           /\ twice.flags = once.flags

(* C5: in a tick, a proposal semantically equal to an order that is in      *)
(* in_flight with age below 3 s is dropped: it is neither in the create     *)
(* batch nor inserted into in_flight.                                       *)
C5_YoungEqualDropped ==
    [][\A m \in Mids : Update(m) =>
          \A i \in 1..Len(Proposals(m)) :
              LET p == Proposals(m)[i] IN
              (\E f \in Keys(orders.in_flight) : OrderEq(p.o, objs[f]) /\ Young(f))
                => /\ ~Has(tick'.creates, p.id)
                   /\ ~Has(orders'.in_flight, p.id)]_vars

(* C6: in a tick, when a proposal is semantically equal to an in_flight     *)
(* order unacknowledged for more than 3 s, such an order is evicted and the *)
(* proposal is in the create batch and in in_flight under its own id.       *)
C6_StaleEqualResubmitted ==
    [][\A m \in Mids : Update(m) =>
          \A i \in 1..Len(Proposals(m)) :
              LET p == Proposals(m)[i]
                  lost == {f \in Keys(orders.in_flight) :
                              OrderEq(p.o, objs[f]) /\ Stale(f)}
              IN lost # {}
                   => /\ \E f \in lost : ~Has(orders'.in_flight, f)
                      /\ Has(tick'.creates, p.id)
                      /\ Has(orders'.in_flight, p.id)]_vars

(* C7: for a LIMIT proposal with a resting order of its level (and no       *)
(* similar order in flight): out of bounds, the tick issues a cancel for    *)
(* the old order and a create for the proposal; in bounds, it issues        *)
(* neither.                                                                 *)
C7_ReplaceRule ==
    [][\A m \in Mids : Update(m) =>
          \A i \in 1..Len(Proposals(m)) :
              LET p == Proposals(m)[i]
                  old == find_matched_order(orders.in_the_book, p.id)
              IN (p.o.orderType = OrderType.LIMIT /\ old # NoCloid
                    /\ NoSimilarInFlight(p, m))
                   => IF is_out_of_bounds(objs[old], p.o, m)
                      THEN /\ Has(tick'.cancels, CKey(old))
                           /\ Has(tick'.creates, p.id)
                      ELSE /\ ~Has(tick'.cancels, CKey(old))
                           /\ ~Has(tick'.creates, p.id)]_vars

(* C8: in a tick, a LIMIT proposal without a resting order of its level is  *)
(* never submitted when |size * entryPrice + side * size * price| is beyond *)
(* max_position, whether the position was never opened, is open, or was     *)
(* reset.                                                                   *)
C8_RiskCheck ==
    [][\A m \in Mids : Update(m) =>
          \A i \in 1..Len(Proposals(m)) :
              LET p == Proposals(m)[i] IN
              (Unmatched(p) /\ Exposure(position, p.o) > max_position)
                => /\ ~Has(tick'.creates, p.id)
                   /\ ~Has(orders'.in_flight, p.id)]_vars

(* C9: in a tick, when a LIMIT proposal has no resting order of its level   *)
(* (and no similar order in flight) and the resting count minus the         *)
(* take-profit count equals total_orders, the tick cancels the resting      *)
(* LIMIT order of the proposal's side closest to mid, if there is one, and  *)
(* creates the proposal.                                                    *)
C9_OverflowReplace ==
    [][\A m \in Mids : Update(m) =>
          \A i \in 1..Len(Proposals(m)) :
              LET p == Proposals(m)[i]
                  side == SameSideLimits(orders.in_the_book, objs, p.o)
              IN (Unmatched(p) /\ NoSimilarInFlight(p, m)
                    /\ Len(orders.in_the_book) - Len(orders.tp) = total_orders)
                   => /\ Has(tick'.creates, p.id)
                      /\ \A b \in Keys(side) :
                            (\A x \in Keys(side) :
                                 Abs(objs[b].price - m) <= Abs(objs[x].price - m))
                              => Has(tick'.cancels, CKey(b))]_vars

(* C10: after order_error(id) returns, id is a key of none of to_create,    *)
(* to_amend, to_cancel, tp, sl and in_flight.                               *)
C10_ErrorPurges ==
    [][\A F \in SUBSET MonFailable : MonitorDone(F) =>
          \A id \in F :
              /\ \A q \in FlagNames : ~InIntent(orders', q, id)
              /\ ~Has(orders'.tp, id)
              /\ ~Has(orders'.sl, id)
              /\ ~Has(orders'.in_flight, id)]_vars

(* C11: once the fills received sum to zero the position record has size   *)
(* 0, side None and entryPrice None, and the position flag is clear.  The   *)
(* record starts flat, so a flat record after a fill is one whose fills     *)
(* cancelled out.                                                           *)
C11_FlatPositionCleared ==
    position.size = 0
      => /\ position.side = None
         /\ position.entryPrice = None
         /\ ~flags.position

(* C12: when the position executor wakes with a position, no take-profit    *)
(* tagged and the liquidation timer elapsed, it queues exactly one order,   *)
(* in to_create: a reduce-only MARKET order sized |size|, and no LIMIT.     *)
C12_LiquidationOrder ==
    [][(position_executor /\ Len(orders.tp) = 0
          /\ now - position.openTime >= liquidation_timer)
         => LET queued == Keys(orders'.to_create) \ Keys(orders.to_create)
            IN /\ Cardinality(queued) = 1
               /\ orders'.to_amend = orders.to_amend
               /\ orders'.to_cancel = orders.to_cancel
               /\ \A c \in queued :
                     /\ objs'[c].orderType = OrderType.MARKET
                     /\ objs'[c].size = Abs(position.size)
                     /\ objs'[c].reduceOnly]_vars

(* the levels of a side: the rows that hold a size (np.zeros rows are empty *)
(* slots)                                                                   *)
LevelsOf(side) == SelectSeq(side, LAMBDA r : r.sz # 0)
PricesOf(rows) == {rows[i].px : i \in 1..Len(rows)}
Names(delta, p) == \E i \in 1..Len(delta) : delta[i].px = p

(* C13: after any sequence of refresh, update_bids and update_asks calls    *)
(* the bid levels are in strictly descending price order and the ask levels *)
(* in strictly ascending price order.                                       *)
C13_BookSorted ==
    LET b == LevelsOf(orderbook.bids)
        a == LevelsOf(orderbook.asks)
    IN /\ \A i \in 1..(Len(b) - 1) : b[i].px > b[i + 1].px
       /\ \A i \in 1..(Len(a) - 1) : a[i].px < a[i + 1].px

(* C14: whenever both sides hold at least one level, the best bid price is  *)
(* strictly below the best ask price (a crossing refresh or delta is        *)
(* applied and the opposite side pruned of the crossed levels).             *)
C14_BookNotCrossed ==
    LET b == LevelsOf(orderbook.bids)
        a == LevelsOf(orderbook.asks)
    IN (b # <<>> /\ a # <<>>)
         => \A i \in 1..Len(b), j \in 1..Len(a) : b[i].px < a[j].px

(* C15: seq_id never decreases across snapshot refreshes and deltas,        *)
(* whatever sequence ids the venue supplies.                                *)
C15_SeqMonotonic ==
    [][orderbook'.seq_id >= orderbook.seq_id]_vars

(* the side after the delta, were it kept whole: the levels the delta does  *)
(* not name and the rows it lists with a size                               *)
Merged(side, delta) ==
    SelectSeq(LevelsOf(side), LAMBDA r : ~Names(delta, r.px)) \o NonZero(delta)

(* r is among the best Depth of rows: fewer than Depth rows beat its price  *)
RanksIn(rows, r, desc) ==
    Cardinality({p \in PricesOf(rows) : IF desc THEN p > r.px ELSE p < r.px}) < Depth

DeltaApplied(before, after, delta, desc) ==
    /\ \A i \in 1..Len(delta) :
          IF delta[i].sz = 0
          THEN delta[i].px \notin PricesOf(after)
          ELSE RanksIn(Merged(before, delta), delta[i], desc)
                 => \E k \in 1..Len(after) : after[k] = delta[i]
    /\ \A k \in 1..Len(LevelsOf(before)) :
          LET r == LevelsOf(before)[k]
          IN (~Names(delta, r.px) /\ RanksIn(Merged(before, delta), r, desc))
               => \E j \in 1..Len(after) : after[j] = r
    /\ \A j \in 1..Len(LevelsOf(after)) :
          LET r == LevelsOf(after)[j]
          IN ~Names(delta, r.px) => \E k \in 1..Len(before) : before[k] = r

(* C16: after update_bids(delta), and symmetrically update_asks, a price    *)
(* listed with size 0 is absent from the side, a price listed with a size   *)
(* is present with that size whenever it ranks within the best depth        *)
(* levels, and the levels the delta does not name are unchanged.            *)
C16_DeltaApplied ==
    [][\A d \in Deltas, c \in Calls, g \in GarbageRows :
          /\ UpdateBids(d, c.ts, c.id, g)
                => DeltaApplied(orderbook.bids, orderbook'.bids, d, TRUE)
          /\ UpdateAsks(d, c.ts, c.id, g)
                => DeltaApplied(orderbook.asks, orderbook'.asks, d, FALSE)]_vars

LevelOf(p) == IF p.o.side = Side.BUY THEN 1 ELSE -1

(* C18: for every id generate_order_id(level) produces, match_level of the  *)
(* id (decoded id // 10^7) is that level, and the id is level * 10^7 plus   *)
(* the sequence number issued for the level.                                *)
C18_LevelReversible ==
    [][\A m \in Mids : Update(m) =>
          \A i \in 1..Len(Proposals(m)) :
              LET p == Proposals(m)[i]
                  level == LevelOf(p)
              IN /\ match_level(to_int(from_int(p.id))) = level
                 /\ p.id = level * LevelBase + levelDict'[level]]_vars

(* C19: whenever the monitor clears the to_create, to_amend or to_cancel    *)
(* flag, the intent map of the same name is empty at that moment.           *)
C19_ClearedFlagDrained ==
    [][\A F \in SUBSET MonFailable :
          (MonitorDone(F) /\ flags[mon.task] /\ ~flags'[mon.task])
             => orders'[mon.task] = <<>>]_vars

(* C20: when a websocket connection closes (an ERROR message is received,   *)
(* or the message stream ends, as it does on CLOSED), the connection task   *)
(* reports that a reconnect is needed, and the supervising loop then sleeps *)
(* 1 s and opens a new connection.                                          *)
C20_ReconnectOnClose ==
    [][/\ (WsMessage("ERROR") \/ WsStreamEnd)
            => (ws'.pc = "returned" /\ ws'.reconnect = "True")
       /\ (WsSupervise /\ ws.closed)
            => (ws'.pc = "sleep" /\ ws'.sleep_ms = 1000)
       /\ WsSleepDone => ws'.pc = "connect"]_vars


(* the clientOrderIds an order of the strategy is still known by: the       *)
(* partitions of a live order and the create and amend queues               *)
Tracked ==
    Keys(orders.in_flight) \cup Keys(orders.to_be_triggered)
      \cup Keys(orders.in_the_book) \cup Keys(orders.to_create)
      \cup Keys(orders.to_amend)

(* C21: in every reachable state, every clientOrderId in the tp or sl tag   *)
(* set is a key of in_flight, to_be_triggered or in_the_book, or of the     *)
(* to_create or to_amend queue.                                             *)
C21_TagHasOrder ==
    (Keys(orders.tp) \cup Keys(orders.sl)) \subseteq Tracked

(* the lifecycle partitions that hold clientOrderId c in the maps ords      *)
PartsOf(ords, c) ==
    {a \in Lifecycle :
        IF a = "to_cancel" THEN Has(ords.to_cancel, CKey(c)) ELSE Has(ords[a], c)}

(* C22: when an "open" arrives for an id that is in in_flight, the handler  *)
(* assigns the venue order id and the timestamp, removes the id from        *)
(* in_flight, and leaves it in exactly one partition: to_be_triggered if    *)
(* the order is conditional, otherwise in_the_book with status IN_THE_BOOK. *)
C22_OpenAcknowledged ==
    [][\A c \in DOMAIN venue \ {NoCloid} :
          (OrderUpdate(c, "open") /\ Has(orders.in_flight, c))
            => /\ objs'[c].orderId = Oid(c)
               /\ objs'[c].timestamp = now
               /\ ~Has(orders'.in_flight, c)
               /\ IF objs[c].orderType \in Conditional
                  THEN PartsOf(orders', c) = {"to_be_triggered"}
                  ELSE /\ PartsOf(orders', c) = {"in_the_book"}
                       /\ objs'[c].status = OrderStatus.IN_THE_BOOK]_vars

(* C23: after a "filled", "canceled" or "marginCanceled" event for an id    *)
(* resting in in_the_book, the id is in recently_cancelled with status      *)
(* RECENTLY_CANCELLED and is a key of none of in_the_book, to_cancel, tp    *)
(* and sl.                                                                  *)
C23_RemovedFromBook ==
    [][\A c \in DOMAIN venue \ {NoCloid} :
       \A status \in {"filled", "canceled", "marginCanceled"} :
          (OrderUpdate(c, status) /\ Has(orders.in_the_book, c))
            => /\ Has(orders'.recently_cancelled, c)
               /\ objs'[c].status = OrderStatus.RECENTLY_CANCELLED
               /\ ~Has(orders'.in_the_book, c)
               /\ ~Has(orders'.to_cancel, CKey(c))
               /\ ~Has(orders'.tp, c)
               /\ ~Has(orders'.sl, c)]_vars

(* a take-profit that rested, was queued for cancellation and is closed     *)
C23_Witness ==
    \E c \in DOMAIN venue \ {NoCloid} :
        /\ venue[c] = "closed"
        /\ objs[c].orderId = Oid(c)
        /\ match_level(c) = 0
        /\ Has(orders.recently_cancelled, c)
        /\ objs[c].status = OrderStatus.RECENTLY_CANCELLED
        /\ ~Has(orders.in_the_book, c)
        /\ ~Has(orders.tp, c)
        /\ \E d \in DOMAIN venue \ {NoCloid} : Has(orders.to_cancel, CKey(d))

(* the resting orders the position executor asks to cancel on this wake     *)
PECancels ==
    IF PEBranch(orders, objs) = "cancel"
    THEN LET active == ActiveTps(orders, objs)
         IN Keys(RemoveAt(active, NewestIdx(active, objs)))
              \cap Keys(orders.in_the_book)
    ELSE {}

(* the resting orders a cancel task was created for in the tick just taken  *)
TickCancels ==
    {k.key : k \in {x \in Keys(tick'.cancels) : x.kind = "cloid"}}
      \cap Keys(orders.in_the_book)

(* C24: whenever the reconciler or the position executor requests the       *)
(* cancellation of a resting order, the order is moved from in_the_book to  *)
(* to_cancel, and an order recorded in to_cancel leaves it only when the    *)
(* venue's "canceled" event for it is processed.                            *)
C24_CancelRecorded ==
    [][/\ position_executor
            => \A c \in PECancels : /\ Has(orders'.to_cancel, CKey(c))
                                    /\ ~Has(orders'.in_the_book, c)
       /\ \A m \in Mids : Update(m)
            => \A c \in TickCancels : /\ Has(orders'.to_cancel, CKey(c))
                                      /\ ~Has(orders'.in_the_book, c)
       /\ \A c \in DOMAIN objs :
            (Has(orders.to_cancel, CKey(c)) /\ ~Has(orders'.to_cancel, CKey(c)))
              => OrderUpdate(c, "canceled")]_vars

(* the tagged take-profits that rest in in_the_book                         *)
RestingTps == Keys(orders.tp) \cap Keys(orders.in_the_book)

(* C25: when the position executor wakes with more than one tagged          *)
(* take-profit resting in in_the_book, every one of them except one with    *)
(* the latest timestamp is in to_cancel afterwards and the to_cancel flag   *)
(* is set; the one kept is not queued for cancellation.                     *)
C25_OldTpsCancelled ==
    [][(position_executor /\ Cardinality(RestingTps) > 1)
         => /\ flags'.to_cancel
            /\ \E k \in RestingTps :
                  /\ \A r \in RestingTps : objs[r].timestamp <= objs[k].timestamp
                  /\ ~Has(orders'.to_cancel, CKey(k))
                  /\ \A r \in RestingTps \ {k} : Has(orders'.to_cancel, CKey(r))]_vars

(* the take-profit the executor computes for the position it wakes with     *)
ClosingSide == IF position.size > 0 THEN Side.SELL ELSE Side.BUY
TpQuote ==
    NewOrder(ClosingSide, OrderType.LIMIT, TimeInForce.POST_ONLY,
             TpPrice(position.entryPrice, ClosingSide), Abs(position.size),
             None, now)
TimerElapsed == now - position.openTime >= liquidation_timer

(* C26: when exactly one tagged take-profit rests in in_the_book and the    *)
(* position executor plans an order (it does not wait for a pending         *)
(* take-profit, and the order it computes differs from the resting one or   *)
(* the liquidation timer has elapsed), the planned order is queued in       *)
(* to_amend, sized |size|, priced at the new take-profit price when it is   *)
(* a LIMIT, and carries the venueOrderId of the resting take-profit.        *)
C26_SingleTpAmended ==
    [][\A r \in RestingTps :
          (/\ position_executor
           /\ RestingTps = {r}
           /\ PEBranch(orders, objs) # "wait"
           /\ (TimerElapsed \/ ~OrderEq(TpQuote, objs[r])))
            => \E c \in Keys(orders'.to_amend) \ Keys(orders.to_amend) :
                  /\ objs'[c].orderId = objs[r].orderId
                  /\ objs'[c].size = Abs(position.size)
                  /\ objs'[c].orderType = OrderType.LIMIT
                       => objs'[c].price = TpQuote.price]_vars

(* the take-profit the executor takes as the previous one on this wake      *)
ActivePreviousTp ==
    LET active == ActiveTps(orders, objs)
    IN IF PEBranch(orders, objs) = "cancel"
       THEN active[NewestIdx(active, objs)] ELSE active[1]

(* the executor plans an order on this wake: it does not wait for a pending *)
(* take-profit, and the liquidation timer has elapsed or the take-profit it *)
(* computes is not the previous one again                                   *)
PlansOrder ==
    /\ PEBranch(orders, objs) # "wait"
    /\ \/ Len(orders.tp) = 0
       \/ TimerElapsed
       \/ ~OrderEq(TpQuote, objs[ActivePreviousTp])

(* C27: on each wake in which the position executor plans an order, the     *)
(* order is inserted into to_create when no take-profit is tagged and into  *)
(* to_amend otherwise, the flag of that queue is set with the order in the  *)
(* queue, and the position flag is clear when the executor waits again.     *)
C27_PlannedOrderQueued ==
    [][(position_executor /\ PlansOrder)
         => LET q == IF Len(orders.tp) = 0 THEN "to_create" ELSE "to_amend"
            IN /\ Keys(orders'[q]) \ Keys(orders[q]) # {}
               /\ flags'[q]
               /\ ~flags'.position]_vars

(* C28: after refresh(bids, asks, ts, seq_id) each side of the replica      *)
(* holds exactly the first min(len, depth) supplied levels of that side,    *)
(* sorted, and no level that was there before the call.                     *)
C28_RefreshReplaces ==
    [][\A snap \in Snapshots, c \in Calls :
          Refresh(snap, c.ts, c.id)
            => /\ LevelsOf(orderbook'.bids) = numba_sort_desc(Take(snap.bids, Depth))
               /\ LevelsOf(orderbook'.asks) = numba_sort_asc(Take(snap.asks, Depth))]_vars

(* C29: every TEXT or BINARY message received on a websocket connection is  *)
(* delivered to the stream's message handler: receiving one is one more     *)
(* call of the handler.                                                     *)
C29_MessageHandled ==
    [][\A type \in {"TEXT", "BINARY"} :
          WsMessage(type) => ws'.handled = ws.handled + 1]_vars

(* the total size of the proposals ps on one side                           *)
RECURSIVE SideTotal(_, _)
SideTotal(ps, side) ==
    IF ps = <<>> THEN 0
    ELSE (IF Head(ps).o.side = side THEN Head(ps).o.size ELSE 0)
           + SideTotal(Tail(ps), side)

(* max(0, budget - |size|)                                                  *)
Remaining(budget, size) ==
    IF budget - Abs(size) > 0 THEN budget - Abs(size) ELSE 0

(* C30: the quotes a tick generates total, per side: with a long position   *)
(* max(0, max_position - |size|) on the bid and max_position on the ask;    *)
(* with a short position max(0, max_position - |size|) on the ask and       *)
(* max_position on the bid; flat, max_position on both (max_position is the *)
(* generator's budget in lots at the tick's mid).                           *)
C30_BudgetBySide ==
    [][\A m \in Mids : Update(m) =>
          LET budget == RoundDiv(max_position, m)
              bid == SideTotal(Proposals(m), Side.BUY)
              ask == SideTotal(Proposals(m), Side.SELL)
          IN IF position.size > 0
             THEN bid = Remaining(budget, position.size) /\ ask = budget
             ELSE IF position.size < 0
             THEN ask = Remaining(budget, position.size) /\ bid = budget
             ELSE bid = budget /\ ask = budget]_vars

(* C31: each time the monitor wakes exactly one flag waiter has completed,  *)
(* and after the wake every one of to_create, to_amend and to_cancel is     *)
(* either the flag being handled or still has a pending waiter.             *)
C31_NoWaiterDiscarded ==
    [][\A f \in FlagNames :
          MonitorWake(f)
            => /\ mon.done = {f}
               /\ \A g \in FlagNames : g = mon'.task \/ g \in mon'.pending]_vars

(* C32: when a batch call of the monitor raises, the request is retried:    *)
(* the flag stays set and the monitor has a waiter on that flag again       *)
(* (pending, or already completed since the flag is set), so that the       *)
(* queue is submitted again.                                                *)
C32_RaisedBatchRetried ==
    [][MonitorRaise
         => /\ flags'[mon.task]
            /\ mon.task \in mon'.pending \cup mon'.done]_vars

(* C33: in every reachable state the number of resting orders that are not *)
(* take-profits, len(in_the_book) - len(tp), is at most total_orders.       *)
C33_RestingBounded ==
    Len(orders.in_the_book) - Len(orders.tp) <= total_orders

(* the orders a step adds to the create and amend queues                    *)
NewlyQueued ==
    (Keys(orders'.to_create) \ Keys(orders.to_create))
      \cup (Keys(orders'.to_amend) \ Keys(orders.to_amend))

(* C34: with a position open, the position executor has a take-profit       *)
(* resting in the book or, once the liquidation timer has expired, queues   *)
(* a liquidation market order, also when a take-profit that was sent was    *)
(* never acknowledged: a wake with the timer expired and no take-profit     *)
(* resting queues a MARKET order.                                           *)
C34_LiquidationQueued ==
    [][(position_executor /\ TimerElapsed /\ RestingTps = {})
         => \E c \in NewlyQueued : objs'[c].orderType = OrderType.MARKET]_vars

(* C35: an order inserted into a queue, with the flag set, while the        *)
(* monitor awaits a batch call for that queue is submitted without another  *)
(* producer setting the flag: when the batch call returns and such an order *)
(* is still queued, the flag stays set, so that the monitor wakes for it.   *)
C35_LateIntentSubmitted ==
    [][\A F \in SUBSET MonFailable :
          (MonitorDone(F)
             /\ Keys(orders'[mon.task]) \ Keys(mon.batch) # {})
            => flags'[mon.task]]_vars

(* in-flight order f is of the side and level of proposal p                 *)
SameSlot(f, p) ==
    /\ objs[f].side = p.o.side
    /\ match_level(f) = match_level(p.id)

(* C36: duplicate suppression acts only against an in-flight order of the   *)
(* side and level of the proposal: the in-flight order at which the scan of *)
(* the tick's first proposal stops is of that proposal's side and level,    *)
(* and every in-flight order a tick evicts is of the side and level of one  *)
(* of the tick's proposals.                                                 *)
C36_SuppressionSameSlot ==
    [][\A m \in Mids : Update(m) =>
          LET ps == Proposals(m)
              hit == SimilarInFlight(orders.in_flight, objs, ps[1].o, m)
          IN /\ (ps # <<>> /\ hit # NoCloid) => SameSlot(hit, ps[1])
             /\ \A f \in Keys(orders.in_flight) \ Keys(orders'.in_flight) :
                   \E i \in 1..Len(ps) : SameSlot(f, ps[i])]_vars

(* C37: on a wake of the position executor, every tagged take-profit it     *)
(* counts as active has its own clientOrderId as a key of in_the_book.      *)
C37_ActiveByIdentity ==
    [][position_executor
         => Keys(ActiveTps(orders, objs)) \subseteq Keys(orders.in_the_book)]_vars

(* C38: every id in to_be_triggered is still in in_flight or has been       *)
(* acknowledged "open" by the venue (the acknowledgement stores the venue   *)
(* order id on the order); a rejected or failed conditional order is not    *)
(* left in to_be_triggered.                                                 *)
C38_TriggerMapLive ==
    \A c \in Keys(orders.to_be_triggered) :
        Has(orders.in_flight, c) \/ objs[c].orderId # None

(* C39: once the venue reports an order canceled, to_cancel holds no entry  *)
(* for it any more, neither under its clientOrderId nor under its venue     *)
(* order id (the key of a placeholder), so it is not sent for cancellation  *)
(* again.                                                                   *)
C39_CancelEntryRemoved ==
    [][\A c \in DOMAIN venue :
          OrderUpdate(c, "canceled")
            => /\ ~Has(orders'.to_cancel, CKey(c))
               /\ ~Has(orders'.to_cancel, OKey(Oid(c)))]_vars

(* C40: a "rejected" event for an id in in_flight moves it to               *)
(* recently_cancelled and out of in_flight; for any other id it changes     *)
(* neither map; in both cases in_the_book keeps its keys, their order and   *)
(* every order it holds as it was.                                          *)
C40_RejectedFrame ==
    [][\A c \in DOMAIN venue :
          OrderUpdate(c, "rejected")
            => /\ orders'.in_the_book = orders.in_the_book
               /\ \A k \in Keys(orders.in_the_book) : objs'[k] = objs[k]
               /\ IF Has(orders.in_flight, c)
                  THEN /\ Has(orders'.recently_cancelled, c)
                       /\ objs'[c].status = OrderStatus.RECENTLY_CANCELLED
                       /\ orders'.in_flight = Del(orders.in_flight, c)
                  ELSE /\ orders'.recently_cancelled = orders.recently_cancelled
                       /\ orders'.in_flight = orders.in_flight
                       /\ objs' = objs]_vars

(* an order that was never acknowledged (it has no venue order id) sits in  *)
(* recently_cancelled, out of in_flight, while another order rests in the   *)
(* book: only a "rejected" event puts an unacknowledged order there         *)
C40_Witness ==
    /\ orders.in_the_book # <<>>
    /\ \E c \in Keys(orders.recently_cancelled) :
          /\ objs[c].orderId = None
          /\ objs[c].status = OrderStatus.RECENTLY_CANCELLED
          /\ venue[c] = "closed"
          /\ ~Has(orders.in_flight, c)
====
